---- MODULE Spec2Model ----
(***************************************************************************)
(* The retrieval layer of paper-search-mcp: the per-source adapters        *)
(* (arXiv, PubMed, bioRxiv, Google Scholar, IACR, Semantic Scholar and     *)
(* the Sci-Hub mirror adapter), each call modelled as the sequence of      *)
(* network requests it issues and the records it builds from the answers.  *)
(* The remote sources are the environment: every answer is chosen          *)
(* nondeterministically from a small alphabet.                             *)
(***************************************************************************)
EXTENDS Integers, Sequences, FiniteSets, TLC

VARIABLES
    pc,             \* control point of the adapter call in progress
    call,           \* the call: adapter, operation, max_results, fetch_details
    papers,         \* the `papers` list the search is building
    cursor,         \* bioRxiv: page cursor
    tries,          \* bioRxiv: failed attempts for the current page
    start,          \* Google Scholar: result offset of the next request
    attempt,        \* Semantic Scholar: loop variable of request_api
    script,         \* Semantic Scholar: the statuses the server will answer
    remote,         \* Google Scholar: the result list the server holds
    api,            \* Semantic Scholar: what request_api returned
    sleeps,         \* Semantic Scholar: durations passed to time.sleep
    results,        \* IACR: result containers of the search page
    idx,            \* IACR: position in `results`
    requests,       \* log: the requests the call has issued
    responses,      \* log: kind and length of each answer received
    seen,           \* log: the items of the pages received, counted by shape
    ret,            \* outcome of the finished call
    available_urls, \* Sci-Hub: self.available_urls
    url_index,      \* Sci-Hub: self.url_index
    pdf_exists,     \* Sci-Hub: whether the PDF file of the paper is on disk
    last_served,    \* Sci-Hub: mirror that served the latest successful download
    hub,            \* Sci-Hub: per caller, the state of its call
    disk,           \* the PDF files on disk, by path
    dir_exists,     \* whether the save_path directory exists
    paper_id,       \* the paper_id argument of a download_pdf or read_paper
    args,           \* Paper: the arguments given to the constructor
    paper,          \* Paper: the instance after __post_init__
    wire,           \* Paper: what to_dict returned
    pdf,            \* the PDF a read_paper has opened, page by page
    text            \* the text extracted from it that read_paper returns

searchVars == <<papers, cursor, tries, start, attempt, script, remote, api, sleeps,
                results, idx>>
logVars    == <<requests, responses, seen>>
hubVars    == <<available_urls, url_index, pdf_exists, last_served, hub>>
fileVars   == <<disk, dir_exists, paper_id>>
recVars    == <<args, paper, wire>>
readVars   == <<pdf, text>>
extVars    == <<fileVars, recVars, readVars>>
vars       == <<pc, call, searchVars, logVars, ret, hubVars, extVars>>

----------------------------------------------------------------------------
(* Bounds of the model *)

MaxResults    == 3      \* largest ordinary max_results argument
MaxPageLen    == 2      \* longest enumerated response page
MaxGsRequests == 3      \* requests one Google Scholar search may issue
MaxPdfPages   == 2      \* pages of the longest PDF read
MaxRemote     == 12     \* results of a remote Google Scholar result list

(* Constants of the program *)

BIORXIV_PAGE        == 100
BIORXIV_MAX_RETRIES == 3
GS_PAGE             == 10
DEFAULT_MAX_RESULTS == 10
SEM_MAX_RETRIES     == 3
SEM_RETRY_DELAY     == 2

Min(a, b) == IF a < b THEN a ELSE b

\* Python's seq[:n] for n >= 0
Truncate(seq, n) == SubSeq(seq, 1, Min(Len(seq), n))

RECURSIVE Pow2(_)
Pow2(n) == IF n = 0 THEN 1 ELSE 2 * Pow2(n - 1)

----------------------------------------------------------------------------
(* Remote items and pages *)

Missing == "<missing>"
\* a field delivered as JSON null (in XML: an element without text)
Null    == "<null>"

\* One entry of a remote response.  `title` is the title field or element,
\* `body` stands for the rest of the entry: "no_id" lacks the identifier
\* part (IACR: the header link), "no_content" lacks another required part
\* (IACR: the content div; elsewhere a date, author or category field).
OkItem        == [title |-> "T",     abstract |-> "A", body |-> "ok"]
NoTitleItem   == [title |-> Missing, abstract |-> "A", body |-> "ok"]
NoIdItem      == [title |-> "T",     abstract |-> "A", body |-> "no_id"]
NoContentItem == [title |-> "T",     abstract |-> "A", body |-> "no_content"]
ItemKinds     == {OkItem, NoTitleItem, NoIdItem, NoContentItem}

\* entries whose title or abstract is null, or whose abstract is absent
NullTitleItem    == [title |-> Null, abstract |-> "A",     body |-> "ok"]
NullAbstractItem == [title |-> "T",  abstract |-> Null,    body |-> "ok"]
NoAbstractItem   == [title |-> "T",  abstract |-> Missing, body |-> "ok"]
NullKinds        == {NullTitleItem, NullAbstractItem, NoAbstractItem}

\* a publicationDate in the form YYYY-MM-DD
IsoDay == "2024-01-05"

\* entries of a Semantic Scholar answer whose publicationDate is absent,
\* null, or a string in another form; an entry written without `date` has
\* a publicationDate in the form YYYY-MM-DD
NoDateItem   == [title |-> "T", abstract |-> "A", body |-> "ok",
                 date |-> Missing]
NullDateItem == [title |-> "T", abstract |-> "A", body |-> "ok",
                 date |-> Null]
BadDateItem  == [title |-> "T", abstract |-> "A", body |-> "ok",
                 date |-> "2024"]
DateKinds    == {NoDateItem, NullDateItem, BadDateItem}

ItemDate(item) == IF "date" \in DOMAIN item THEN item.date ELSE IsoDay

SmallPages == UNION {[1..n -> ItemKinds] : n \in 0..MaxPageLen}

FullPage(n) == [i \in 1..n |-> OkItem]

\* five well-formed items and one without title
ScenarioPage == <<OkItem, OkItem, NoTitleItem, OkItem, OkItem, OkItem>>

\* pages with one entry of a null kind, alone or after a well-formed one
NullPages == {<<k>> : k \in NullKinds} \cup {<<OkItem, k>> : k \in NullKinds}

Pages == SmallPages \cup {ScenarioPage} \cup NullPages

\* pages with one entry of a date kind, alone or after a well-formed one
DatePages == {<<k>> : k \in DateKinds} \cup {<<OkItem, k>> : k \in DateKinds}

\* A Paper, reduced to the fields the properties read
Paper(src, t, a) == [source |-> src, title |-> t, abstract |-> a]

\* the text of an HTML or Atom element: a string, empty without text
Text(x) == IF x = Null THEN "" ELSE x

\* a field read with a default: item.get(key, '') and the like
OrEmpty(x) == IF x = Missing THEN "" ELSE x

Exc(k)      == [kind |-> k, items |-> <<>>]
PageResp(p) == [kind |-> "page", items |-> p]

\* what the logs keep of an answer
Summary(resp) == [kind |-> resp.kind, len |-> Len(resp.items)]

\* how many of the items are of one of the given shapes
Count(items, shapes) ==
    Cardinality({i \in 1..Len(items) : items[i] \in shapes})

NoneSeen == [ok |-> 0, no_title |-> 0, other |-> 0]
See(s, items) ==
    [ok       |-> s.ok + Count(items, {OkItem}),
     no_title |-> s.no_title + Count(items, {NoTitleItem}),
     other    |-> s.other + Count(items, {NoIdItem, NoContentItem}
                                             \cup NullKinds \cup DateKinds)]

Req(to, at) == [to |-> to, at |-> at]

Returned(what, ps) == [kind |-> "returned", what |-> what, papers |-> ps]
Raised(what)       == [kind |-> "raised", what |-> what, papers |-> <<>>]
NoRet              == [kind |-> "none", what |-> "", papers |-> <<>>]

\* the answers of the server are not tied to one result list
NoRemote == [fixed |-> FALSE]

NoCall == [adapter |-> "none", op |-> "none", max_results |-> 0,
           fetch_details |-> FALSE]
Call(a, o, n, fd) == [adapter |-> a, op |-> o, max_results |-> n,
                      fetch_details |-> fd]

----------------------------------------------------------------------------
(* Sci-Hub mirror adapter: construction *)

\* no PDF opened
NoPdf == [opened |-> FALSE]

Mirrors  == {"sci-hub.se", "sci-hub.st", "sci-hub.ru"}
Callers  == {"c1", "c2"}
NoMirror == "none"

HubIdle == [pc |-> "idle", op |-> "none", urls_to_try |-> <<>>, i |-> 0,
            tried |-> <<>>, temporary_download |-> FALSE,
            existed_before |-> FALSE, prev_served |-> NoMirror,
            index_before |-> 0, served |-> NoMirror, ret |-> NoRet,
            pdf |-> NoPdf, text |-> <<>>]

AllIdle == pc = "idle" /\ \A p \in Callers : hub[p].pc = "idle"

\* lists without duplicates over the mirror hostnames: list(set(urls))
DistinctLists ==
    {s \in UNION {[1..n -> Mirrors] : n \in 0..Cardinality(Mirrors)} :
        \A i, j \in 1..Len(s) : i # j => s[i] # s[j]}

FallbackUrls == <<"sci-hub.se", "sci-hub.st", "sci-hub.ru">>

\* _get_available_scihub_urls: the scraped hostnames, or the static list
\* when the request raised
GetAvailableScihubUrls(scrape) ==
    IF scrape.kind = "exc" THEN FallbackUrls ELSE scrape.urls

ScrapeOutcomes ==
    {[kind |-> "exc", urls |-> <<>>]}
        \cup {[kind |-> "ok", urls |-> s] : s \in DistinctLists}

----------------------------------------------------------------------------
(* The canonical record: paper.py *)

\* Python's None, and a value that is not None
None    == [is_none |-> TRUE]
Some(v) == [is_none |-> FALSE, value |-> v]

\* Python truthiness of an optional list, dict or datetime
Truthy(x) == ~x.is_none /\ x.value # <<>>

RECURSIVE Join(_, _)
\* sep.join(seq)
Join(seq, sep) ==
    IF seq = <<>> THEN ""
    ELSE IF Len(seq) = 1 THEN seq[1]
    ELSE seq[1] \o sep \o Join(Tail(seq), sep)

\* a datetime at midnight
Date(y, m, d) == [year |-> y, month |-> m, day |-> d]

Pad2(n) == IF n < 10 THEN "0" \o ToString(n) ELSE ToString(n)

\* datetime.isoformat()
IsoFormat(dt) ==
    ToString(dt.year) \o "-" \o Pad2(dt.month) \o "-" \o Pad2(dt.day)
        \o "T00:00:00"

RECURSIVE DictItems(_)
DictItems(d) ==
    IF d = <<>> THEN <<>>
    ELSE <<"'" \o d[1][1] \o "': '" \o d[1][2] \o "'">> \o DictItems(Tail(d))

\* str(d) of a dict of strings, given as its sequence of <<key, value>>
DictStr(d) == "{" \o Join(DictItems(d), ", ") \o "}"

\* the values tried for each argument of the constructor
ListArgs  == {None, Some(<<>>), Some(<<"a">>), Some(<<"a", "b">>)}
ShortListArgs == {None, Some(<<>>), Some(<<"a", "b">>)}
DateArgs  == {None, Some(Date(2024, 1, 5))}
ExtraArgs == {None, Some(<<>>), Some(<< <<"k", "v">> >>)}
TitleArgs == {Some("T"), None}

PaperArgs ==
    [title : TitleArgs, authors : ListArgs, published_date : DateArgs,
     updated_date : DateArgs, categories : ShortListArgs,
     keywords : ShortListArgs, citations : {3}, references : ShortListArgs,
     extra : ExtraArgs]

NoArgs  == [given |-> FALSE]
NoPaper == [constructed |-> FALSE]
NoWire  == [serialized |-> FALSE]

\* (mutant) references left out of the defaults
PostInitWithoutReferences(a) ==
    [a EXCEPT !.authors = IF @.is_none THEN Some(<<>>) ELSE @,
              !.categories = IF @.is_none THEN Some(<<>>) ELSE @,
              !.keywords = IF @.is_none THEN Some(<<>>) ELSE @,
              !.extra = IF @.is_none THEN Some(<<>>) ELSE @]

\* Paper.__post_init__: None replaced by [] (by {} for extra)
PostInit(a) ==
    [a EXCEPT !.authors = IF @.is_none THEN Some(<<>>) ELSE @,
              !.categories = IF @.is_none THEN Some(<<>>) ELSE @,
              !.keywords = IF @.is_none THEN Some(<<>>) ELSE @,
              !.references = IF @.is_none THEN Some(<<>>) ELSE @,
              !.extra = IF @.is_none THEN Some(<<>>) ELSE @]

\* '; '.join(xs) if xs else ''
JoinedOrEmpty(xs) == IF Truthy(xs) THEN Join(xs.value, "; ") ELSE ""

\* d.isoformat() if d else ''
IsoOrEmpty(d) == IF ~d.is_none THEN IsoFormat(d.value) ELSE ""

\* (mutant) str(self.extra) whatever extra holds
ExtraStrAlways(e) == IF e.is_none THEN "None" ELSE DictStr(e.value)

\* str(self.extra) if self.extra else ''
ExtraStr(e) == IF Truthy(e) THEN DictStr(e.value) ELSE ""

\* Paper.to_dict
ToDict(self) ==
    [title          |-> self.title,
     authors        |-> JoinedOrEmpty(self.authors),
     published_date |-> IsoOrEmpty(self.published_date),
     updated_date   |-> IsoOrEmpty(self.updated_date),
     categories     |-> JoinedOrEmpty(self.categories),
     keywords       |-> JoinedOrEmpty(self.keywords),
     citations      |-> self.citations,
     references     |-> JoinedOrEmpty(self.references),
     extra          |-> ExtraStr(self.extra)]

\* Paper(...): the dataclass constructor, then __post_init__
PaperConstruct ==
    /\ args \in PaperArgs
    /\ paper = NoPaper
    /\ paper' = PostInit(args)
    /\ UNCHANGED <<pc, call, searchVars, logVars, ret, hubVars, fileVars,
                   args, wire, readVars>>

\* paper.to_dict()
PaperToDict ==
    /\ paper # NoPaper
    /\ wire = NoWire
    /\ wire' = ToDict(paper)
    /\ UNCHANGED <<pc, call, searchVars, logVars, ret, hubVars, fileVars,
                   args, paper, readVars>>

----------------------------------------------------------------------------
InitCalls ==
    /\ pc = "idle"
    /\ call = NoCall
    /\ papers = <<>>
    /\ cursor = 0
    /\ tries = 0
    /\ start = 0
    /\ attempt = 0
    /\ script = <<>>
    /\ remote = NoRemote
    /\ api = ""
    /\ sleeps = <<>>
    /\ results = <<>>
    /\ idx = 0
    /\ requests = <<>>
    /\ responses = <<>>
    /\ seen = NoneSeen
    /\ ret = NoRet

\* nothing on disk, no Paper under construction
InitExt ==
    /\ disk = {}
    /\ dir_exists = FALSE
    /\ paper_id = ""
    /\ args = NoArgs
    /\ paper = NoPaper
    /\ wire = NoWire
    /\ pdf = NoPdf
    /\ text = <<>>

\* SciHubSearcher.__init__ after the scrape ended as `scrape`
HubConstructed(scrape) ==
    /\ available_urls = GetAvailableScihubUrls(scrape)
    /\ url_index = 0
    /\ last_served = NoMirror
    /\ hub = [p \in Callers |-> HubIdle]

\* every adapter constructed; the directory page of the mirrors was
\* unreachable, and the paper is not on disk
Init ==
    /\ InitCalls
    /\ HubConstructed([kind |-> "exc", urls |-> <<>>])
    /\ pdf_exists = FALSE
    /\ InitExt

\* the mirror adapter constructed after any outcome of the scrape
InitHub ==
    /\ InitCalls
    /\ \E scrape \in ScrapeOutcomes : HubConstructed(scrape)
    /\ pdf_exists \in BOOLEAN
    /\ InitExt

\* the mirror adapter constructed with no, one, two or three candidates,
\* the paper not on disk
InitHubInterleaved ==
    /\ InitCalls
    /\ \E n \in 0..Len(FallbackUrls) :
          HubConstructed([kind |-> "ok", urls |-> SubSeq(FallbackUrls, 1, n)])
    /\ pdf_exists = FALSE
    /\ InitExt

\* the arguments of one Paper(...) call, nothing else going on
InitRecord ==
    /\ InitCalls
    /\ HubConstructed([kind |-> "exc", urls |-> <<>>])
    /\ pdf_exists = FALSE
    /\ disk = {} /\ dir_exists = FALSE /\ paper_id = ""
    /\ args \in PaperArgs
    /\ paper = NoPaper
    /\ wire = NoWire
    /\ pdf = NoPdf
    /\ text = <<>>

\* the call has returned or raised: the caller takes the outcome
Finish ==
    /\ pc = "done"
    /\ pc' = "idle"
    /\ call' = NoCall
    /\ papers' = <<>> /\ cursor' = 0 /\ tries' = 0 /\ start' = 0
    /\ attempt' = 0 /\ script' = <<>> /\ api' = "" /\ sleeps' = <<>>
    /\ remote' = NoRemote
    /\ results' = <<>> /\ idx' = 0
    /\ requests' = <<>> /\ responses' = <<>> /\ seen' = NoneSeen
    /\ ret' = NoRet
    /\ paper_id' = ""
    /\ pdf' = NoPdf
    /\ text' = <<>>
    /\ UNCHANGED <<hubVars, disk, dir_exists, recVars>>

----------------------------------------------------------------------------
(* Parsing one entry of an answer: <<>> when the entry is skipped (an
   exception caught for that entry, or None returned), <<paper>> otherwise *)

\* ArxivSearcher.search: every attribute of the entry is read inside the
\* per-entry try block; entry.title raises AttributeError when absent
ArxivParseEntry(entry) ==
    IF entry.title = Missing \/ entry.abstract = Missing \/ entry.body # "ok"
    THEN <<>>
    ELSE <<Paper("arxiv", Text(entry.title), Text(entry.abstract))>>

\* PubMedSearcher.search: article.find('.//ArticleTitle').text raises
\* AttributeError when the element is absent, inside the per-article try,
\* and is None when the element has no text; the abstract is '' without
\* AbstractText element
PubMedParseArticle(article) ==
    IF article.title = Missing \/ article.body # "ok" THEN <<>>
    ELSE <<Paper("pubmed", article.title, OrEmpty(article.abstract))>>

\* (mutant) a missing title read with a default instead of item['title']
BioRxivParseItemDefaultTitle(item) ==
    IF item.body # "ok" THEN <<>>
    ELSE <<Paper("biorxiv", OrEmpty(item.title), item.abstract)>>

\* BioRxivSearcher.search: item['doi'], item['title'], item['date'], ...
\* raise KeyError or ValueError inside the per-item try block
BioRxivParseItem(item) ==
    IF item.title = Missing \/ item.abstract = Missing \/ item.body # "ok"
    THEN <<>>
    ELSE <<Paper("biorxiv", item.title, item.abstract)>>

\* GoogleScholarSearcher._parse_paper: None without title or info element;
\* the abstract is '' without gs_rs element
GoogleScholarParsePaper(item) ==
    IF item.title = Missing \/ item.body # "ok" THEN <<>>
    ELSE <<Paper("google_scholar", Text(item.title),
                 Text(OrEmpty(item.abstract)))>>

\* SemanticSearcher._parse_date: strptime(date_str.strip(), "%Y-%m-%d"),
\* None after a ValueError
SemanticParseDate(date_str) ==
    IF date_str = IsoDay THEN Some(Date(2024, 1, 5)) ELSE None

\* date_str.strip() on None raises AttributeError, which the
\* `except ValueError` of _parse_date does not catch
SemanticDateRaises(date_str) == date_str = Null

\* the record of the Semantic Scholar adapter, with its published_date
SemanticPaper(t, a, d) ==
    [source |-> "semantic", title |-> t, abstract |-> a, published_date |-> d]

\* SemanticSearcher._parse_paper: item['paperId'] and item['title'] raise
\* KeyError, caught, None, like any exception of
\* _parse_date(item.get('publicationDate', '')); abstract is
\* item.get('abstract', '')
SemanticParsePaper(item) ==
    IF item.title = Missing \/ item.body # "ok"
           \/ SemanticDateRaises(ItemDate(item))
    THEN <<>>
    ELSE <<SemanticPaper(item.title, OrEmpty(item.abstract),
                         SemanticParseDate(OrEmpty(ItemDate(item))))>>

ParseItem(adapter, item) ==
    CASE adapter = "arxiv"          -> ArxivParseEntry(item)
      [] adapter = "pubmed"         -> PubMedParseArticle(item)
      [] adapter = "biorxiv"        -> BioRxivParseItem(item)
      [] adapter = "google_scholar" -> GoogleScholarParsePaper(item)
      [] adapter = "semantic"       -> SemanticParsePaper(item)

RECURSIVE ParseAll(_, _)
\* for entry in entries: try: papers.append(<parse entry>) except: skip
ParseAll(adapter, items) ==
    IF items = <<>> THEN <<>>
    ELSE ParseItem(adapter, Head(items)) \o ParseAll(adapter, Tail(items))

RECURSIVE ParseCapped(_, _, _, _)
\* for item in results: if len(papers) >= max_results: break
\*                      paper = self._parse_paper(item)
\*                      if paper: papers.append(paper)
ParseCapped(adapter, items, acc, n) ==
    IF items = <<>> \/ Len(acc) >= n THEN acc
    ELSE ParseCapped(adapter, Tail(items),
                     acc \o ParseItem(adapter, Head(items)), n)

----------------------------------------------------------------------------
(* arXiv *)

ArxivResponses == {Exc("exc")} \cup {PageResp(p) : p \in Pages}

\* ArxivSearcher.search: one GET outside any try block, then the entries
ArxivSearch(n, resp) ==
    /\ AllIdle
    /\ call' = Call("arxiv", "search", n, FALSE)
    /\ requests' = <<Req("arxiv", 0)>>
    /\ responses' = <<Summary(resp)>>
    /\ seen' = See(seen, resp.items)
    /\ IF resp.kind = "exc"
       THEN /\ ret' = Raised("RequestException")
            /\ papers' = <<>>
       ELSE /\ papers' = ParseAll("arxiv", resp.items)
            /\ ret' = Returned("papers", papers')
    /\ pc' = "done"
    /\ UNCHANGED <<cursor, tries, start, attempt, script, remote, api, sleeps,
                   results, idx, hubVars, extVars>>

----------------------------------------------------------------------------
(* PubMed *)

PubMedSearchResponses == {Exc("exc"), Exc("unparsable"), Exc("xml")}
PubMedFetchResponses ==
    {Exc("exc"), Exc("unparsable")} \cup {PageResp(p) : p \in Pages}

\* PubMedSearcher.search: esearch, then efetch; requests.get and
\* ET.fromstring are both outside any try block
PubMedSearch(n, r1, r2) ==
    /\ AllIdle
    /\ call' = Call("pubmed", "search", n, FALSE)
    /\ pc' = "done"
    /\ IF r1.kind # "xml"
       THEN /\ requests' = <<Req("esearch", 0)>>
            /\ responses' = <<Summary(r1)>>
            /\ seen' = seen
            /\ papers' = <<>>
            /\ ret' = Raised(IF r1.kind = "exc" THEN "RequestException"
                                                ELSE "ParseError")
       ELSE /\ requests' = <<Req("esearch", 0), Req("efetch", 0)>>
            /\ responses' = <<Summary(r1), Summary(r2)>>
            /\ seen' = See(seen, r2.items)
            /\ IF r2.kind # "page"
               THEN /\ papers' = <<>>
                    /\ ret' = Raised(IF r2.kind = "exc"
                                     THEN "RequestException"
                                     ELSE "ParseError")
               ELSE /\ papers' = ParseAll("pubmed", r2.items)
                    /\ ret' = Returned("papers", papers')
    /\ UNCHANGED <<cursor, tries, start, attempt, script, remote, api, sleeps,
                   results, idx, hubVars, extVars>>

----------------------------------------------------------------------------
(* Capabilities a source does not have *)

\* (mutant) the message returned instead of raised
PubMedDownloadPdfReturns == Returned("explanation", <<>>)

\* PubMedSearcher.download_pdf
PubMedDownloadPdf == Raised("NotImplementedError")
\* PubMedSearcher.read_paper
PubMedReadPaper == Returned("explanation", <<>>)
\* GoogleScholarSearcher.download_pdf
GoogleScholarDownloadPdf == Raised("NotImplementedError")
\* GoogleScholarSearcher.read_paper
GoogleScholarReadPaper == Returned("explanation", <<>>)
\* SciHubSearcher.search
SciHubSearch == Raised("NotImplementedError")

UnsupportedOps ==
    {<<"pubmed", "download_pdf">>, <<"pubmed", "read_paper">>,
     <<"google_scholar", "download_pdf">>, <<"google_scholar", "read_paper">>,
     <<"scihub", "search">>}

UnsupportedOutcome(a, o) ==
    CASE a = "pubmed" /\ o = "download_pdf" -> PubMedDownloadPdf
      [] a = "pubmed" /\ o = "read_paper" -> PubMedReadPaper
      [] a = "google_scholar" /\ o = "download_pdf" -> GoogleScholarDownloadPdf
      [] a = "google_scholar" /\ o = "read_paper" -> GoogleScholarReadPaper
      [] a = "scihub" /\ o = "search" -> SciHubSearch

\* the body of each of these methods is a single raise or return
Unsupported(a, o, n) ==
    /\ AllIdle
    /\ call' = Call(a, o, n, FALSE)
    /\ ret' = UnsupportedOutcome(a, o)
    /\ pc' = "done"
    /\ UNCHANGED <<searchVars, logVars, hubVars, extVars>>

----------------------------------------------------------------------------
(* bioRxiv *)

BioRxivPages ==
    Pages \cup {FullPage(BIORXIV_PAGE), FullPage(BIORXIV_PAGE - 1),
                FullPage(BIORXIV_PAGE + 1)}
BioRxivResponses == {Exc("exc")} \cup {PageResp(p) : p \in BioRxivPages}

\* return papers[:max_results]
BioRxivReturn(ps) ==
    /\ ret' = Returned("papers", Truncate(ps, call'.max_results))
    /\ pc' = "done"

\* BioRxivSearcher.search up to the first page request
BioRxivSearchStart(n) ==
    /\ AllIdle
    /\ call' = Call("biorxiv", "search", n, FALSE)
    /\ papers' = <<>>
    /\ cursor' = 0
    /\ tries' = 0
    /\ IF Len(papers') < n
       THEN pc' = "bx_try" /\ ret' = ret
       ELSE BioRxivReturn(papers')
    /\ UNCHANGED <<start, attempt, script, remote, api, sleeps, results, idx,
                   logVars, hubVars, extVars>>

\* (mutant) no give-up after the last failed attempt
BioRxivInnerExitNoGiveUp(resp, t) ==
    IF resp.kind = "page" THEN "break" ELSE "next"

\* how one iteration of the inner `while tries < max_retries` loop ends:
\* a page is followed by `break` on both paths (short page, full page);
\* a RequestException by `break` once tries == max_retries
BioRxivInnerExit(resp, t) ==
    IF resp.kind = "page" THEN "break"
    ELSE IF t = BIORXIV_MAX_RETRIES THEN "break" ELSE "next"

\* one iteration of the inner loop: a page request and what follows it.
\* The inner loop's else clause (`continue`) runs only when the loop ends
\* by its condition; after a `break` the outer `break` is reached.
BioRxivTry(resp) ==
    LET t    == IF resp.kind = "page" THEN tries ELSE tries + 1
        exit == BioRxivInnerExit(resp, t)
    IN
    /\ pc = "bx_try"
    /\ call' = call
    /\ requests' = Append(requests, Req("biorxiv", cursor))
    /\ responses' = Append(responses, Summary(resp))
    /\ seen' = See(seen, resp.items)
    /\ papers' = IF resp.kind = "page"
                 THEN papers \o ParseAll("biorxiv", resp.items)
                 ELSE papers
    /\ cursor' = IF resp.kind = "page" /\ ~(Len(resp.items) < BIORXIV_PAGE)
                 THEN cursor + BIORXIV_PAGE ELSE cursor
    /\ IF exit = "break"
       THEN \* else clause skipped: outer `break`, then return
            tries' = t /\ BioRxivReturn(papers')
       ELSE IF t < BIORXIV_MAX_RETRIES
       THEN \* next iteration of the inner loop
            tries' = t /\ pc' = "bx_try" /\ ret' = ret
       ELSE \* inner loop ended by its condition: else clause, `continue`
            IF Len(papers') < call.max_results
            THEN tries' = 0 /\ pc' = "bx_try" /\ ret' = ret
            ELSE tries' = t /\ BioRxivReturn(papers')
    /\ UNCHANGED <<start, attempt, script, remote, api, sleeps, results, idx,
                   hubVars, extVars>>

----------------------------------------------------------------------------
(* Google Scholar *)

GoogleScholarResponses ==
    {Exc("exc"), Exc("non200")} \cup {PageResp(p) : p \in Pages}

\* The result list the server holds for the query, when it is the same
\* throughout a call: result i (from 0) has the title "r<i>", and its
\* container has the info element or lacks it.
RemoteResult(i, parses) ==
    [title |-> "r" \o ToString(i), abstract |-> "A",
     body |-> IF parses THEN "ok" ELSE "no_content"]

RemoteList(parsable) ==
    [k \in 1..MaxRemote |-> RemoteResult(k - 1, (k - 1) \in parsable)]

\* every container parses, or exactly one does
RemoteLists ==
    {RemoteList(0..(MaxRemote - 1))}
        \cup {RemoteList({i}) : i \in 0..(MaxRemote - 1)}

Remote(list) == [fixed |-> TRUE, results |-> list]

\* the page the server answers to `start`: the GS_PAGE results from that
\* offset on (the request carries no page size)
Window(list, st) == SubSeq(list, st + 1, Min(st + GS_PAGE, Len(list)))

\* what the server may answer to the next request
GoogleScholarAnswers ==
    IF remote.fixed THEN {PageResp(Window(remote.results, start))}
    ELSE GoogleScholarResponses

\* results_per_page = min(10, max_results)
ResultsPerPage(n) == Min(GS_PAGE, n)

GoogleScholarReturn(ps) ==
    /\ ret' = Returned("papers", Truncate(ps, call'.max_results))
    /\ pc' = "done"

\* GoogleScholarSearcher.search up to the first request
GoogleScholarSearchStart(n, r) ==
    /\ AllIdle
    /\ call' = Call("google_scholar", "search", n, FALSE)
    /\ remote' = r
    /\ papers' = <<>>
    /\ start' = 0
    /\ IF Len(papers') < n
       THEN pc' = "gs_request" /\ ret' = ret
       ELSE GoogleScholarReturn(papers')
    /\ UNCHANGED <<cursor, tries, attempt, script, api, sleeps, results, idx,
                   logVars, hubVars, extVars>>

\* (mutant) the test for an empty page left out
GoogleScholarStopsOnStatusOnly(resp) == resp.kind # "page"

\* an exception caught, a status other than 200, or no result container:
\* break
GoogleScholarStops(resp) == resp.kind # "page" \/ resp.items = <<>>

\* one iteration of `while len(papers) < max_results`
GoogleScholarRequest(resp) ==
    /\ pc = "gs_request"
    /\ resp \in GoogleScholarAnswers
    /\ Len(requests) < MaxGsRequests
    /\ call' = call
    /\ requests' = Append(requests, Req("google_scholar", start))
    /\ responses' = Append(responses, Summary(resp))
    /\ seen' = See(seen, resp.items)
    /\ IF GoogleScholarStops(resp)
       THEN /\ papers' = papers
            /\ start' = start
            /\ GoogleScholarReturn(papers')
       ELSE /\ papers' = ParseCapped("google_scholar", resp.items,
                                     papers, call.max_results)
            /\ start' = start + ResultsPerPage(call.max_results)
            /\ IF Len(papers') < call.max_results
               THEN pc' = "gs_request" /\ ret' = ret
               ELSE GoogleScholarReturn(papers')
    /\ UNCHANGED <<cursor, tries, attempt, script, remote, api, sleeps,
                   results, idx,
                   hubVars, extVars>>

----------------------------------------------------------------------------
(* IACR *)

\* the answer to the request for one paper's own page
IacrDetail(k, t) == [kind |-> k, title |-> t]
NoDetail == IacrDetail("none", Missing)
IacrDetailResponses ==
    {IacrDetail("exc", Missing), IacrDetail("non200", Missing),
     IacrDetail("page", "T_detail"), IacrDetail("page", Missing)}

\* IACRSearcher.get_paper_details: None after an exception or a status
\* other than 200; otherwise a Paper whose title is "" without the h3
IacrGetPaperDetails(detail) ==
    IF detail.kind = "page"
    THEN <<Paper("iacr", OrEmpty(detail.title), "A_detail")>>
    ELSE <<>>

\* header div and paper link found
IacrHasLink(item) == item.body # "no_id"

\* (mutant) no fallback to the fields of the search page
IacrParsePaperNoFallback(item, fetch_details, detail) ==
    IF ~IacrHasLink(item) THEN <<>>
    ELSE IF fetch_details THEN IacrGetPaperDetails(detail)
    ELSE IF item.body = "no_content" THEN <<>>
    ELSE <<Paper("iacr", Text(OrEmpty(item.title)),
                 Text(OrEmpty(item.abstract)))>>

\* IACRSearcher._parse_paper
IacrParsePaper(item, fetch_details, detail) ==
    IF ~IacrHasLink(item) THEN <<>>
    ELSE IF fetch_details /\ IacrGetPaperDetails(detail) # <<>>
    THEN IacrGetPaperDetails(detail)
    ELSE IF item.body = "no_content" THEN <<>>
    ELSE <<Paper("iacr", Text(OrEmpty(item.title)),
                 Text(OrEmpty(item.abstract)))>>

IacrResponses == {Exc("exc"), Exc("non200")} \cup {PageResp(p) : p \in Pages}

IacrReturn(ps) ==
    /\ ret' = Returned("papers", Truncate(ps, call'.max_results))
    /\ pc' = "done"

\* the test at the head of `for i, item in enumerate(results)`
IacrLoopEnds(ps, k) == k > Len(results') \/ Len(ps) >= call'.max_results

\* IACRSearcher.search up to the first result container
IacrSearch(n, fd, resp) ==
    /\ AllIdle
    /\ call' = Call("iacr", "search", n, fd)
    /\ requests' = <<Req("iacr_search", 0)>>
    /\ responses' = <<Summary(resp)>>
    /\ seen' = See(seen, resp.items)
    /\ papers' = <<>>
    /\ results' = resp.items
    /\ idx' = 1
    /\ IF resp.kind # "page" \/ IacrLoopEnds(papers', idx')
       THEN IacrReturn(papers')
       ELSE pc' = "iacr_item" /\ ret' = ret
    /\ UNCHANGED <<cursor, tries, start, attempt, script, remote, api,
                   sleeps, hubVars, extVars>>

RECURSIVE IacrCompactLoop(_, _, _)
\* the loop over the result containers with fetch_details = False
IacrCompactLoop(items, acc, n) ==
    IF items = <<>> \/ Len(acc) >= n THEN acc
    ELSE IacrCompactLoop(Tail(items),
                         acc \o IacrParsePaper(Head(items), FALSE, NoDetail), n)

\* what search(query, n, fetch_details=False) returns for a results page
IacrSearchCompact(items, n) == Truncate(IacrCompactLoop(items, <<>>, n), n)

\* one iteration of the loop over the result containers
IacrItem(detail) ==
    LET item == results[idx]
        asks == call.fetch_details /\ IacrHasLink(item)
    IN
    /\ pc = "iacr_item"
    /\ detail \in (IF asks THEN IacrDetailResponses ELSE {NoDetail})
    /\ call' = call
    /\ results' = results
    /\ requests' = IF asks THEN Append(requests, Req("iacr_detail", idx))
                           ELSE requests
    /\ responses' = IF asks
                    THEN Append(responses, [kind |-> detail.kind, len |-> 0])
                    ELSE responses
    /\ papers' = papers \o IacrParsePaper(item, call.fetch_details, detail)
    /\ idx' = idx + 1
    /\ IF IacrLoopEnds(papers', idx')
       THEN IacrReturn(papers')
       ELSE pc' = "iacr_item" /\ ret' = ret
    /\ UNCHANGED <<cursor, tries, start, attempt, script, remote, api, sleeps,
                   seen, hubVars, extVars>>

----------------------------------------------------------------------------
(* Semantic Scholar *)

SemanticStatuses == {"200", "429", "500", "exc"}
ScriptLen == SEM_MAX_RETRIES + 1
Scripts == [1..ScriptLen -> SemanticStatuses]

\* (mutant) the same delay before every retry
SemanticWaitTimeFlat(att) == SEM_RETRY_DELAY

\* wait_time = retry_delay * (2 ** attempt)
SemanticWaitTime(att) == SEM_RETRY_DELAY * Pow2(att)

\* (mutant) one retry more than the loop has attempts
SemanticRetriesOneMore(att) == att < SEM_MAX_RETRIES

\* on a 429: sleep and retry while attempt < max_retries - 1
SemanticRetries(att) == att < SEM_MAX_RETRIES - 1

\* (mutant) every HTTP error status retried like a 429
SemanticRetryableAnyStatus(status) == status \in {"429", "500"}

\* if response.status_code == 429 (or the HTTPError carries a 429)
SemanticRetryable(status) == status = "429"

\* SemanticSearcher.request_api or SemanticSearcher.search, up to the
\* first request
SemanticStart(o, n, s) ==
    /\ AllIdle
    /\ call' = Call("semantic", o, n, FALSE)
    /\ script' = s
    /\ remote' = remote
    /\ attempt' = 0
    /\ sleeps' = <<>>
    /\ api' = ""
    /\ papers' = <<>>
    /\ pc' = "sem_request"
    /\ UNCHANGED <<cursor, tries, start, results, idx, logVars, ret, hubVars,
                   extVars>>

\* one iteration of `for attempt in range(max_retries)` of request_api
SemanticRequest ==
    /\ pc = "sem_request"
    /\ Len(requests) < Len(script)
    /\ LET status == script[Len(requests) + 1] IN
       /\ requests' = Append(requests, Req("semantic", attempt))
       /\ responses' = Append(responses, [kind |-> status, len |-> 0])
       /\ IF SemanticRetryable(status) /\ SemanticRetries(attempt)
          THEN /\ sleeps' = Append(sleeps, SemanticWaitTime(attempt))
               /\ attempt' = attempt + 1
               \* continue: the next attempt, or the statement after the loop
               /\ IF attempt' < SEM_MAX_RETRIES
                  THEN pc' = "sem_request" /\ api' = api
                  ELSE pc' = "sem_return" /\ api' = "max_retries_exceeded"
          ELSE /\ sleeps' = sleeps
               /\ attempt' = attempt
               /\ pc' = "sem_return"
               /\ api' = CASE SemanticRetryable(status) -> "rate_limited"
                           [] status = "200" -> "response"
                           [] status = "500" -> "http_error"
                           [] OTHER          -> "general_error"
    /\ UNCHANGED <<call, papers, cursor, tries, start, script, remote,
                   results, idx,
                   seen, ret, hubVars, extVars>>

\* request_api called on its own returns to its caller
SemanticRequestApiReturn ==
    /\ pc = "sem_return"
    /\ call.op = "request_api"
    /\ ret' = Returned(api, <<>>)
    /\ pc' = "done"
    /\ UNCHANGED <<call, searchVars, logVars, hubVars, extVars>>

SemanticBodies ==
    {Exc("unparsable")} \cup {PageResp(p) : p \in Pages \cup DatePages}

\* the entries that have paperId and title and whose publicationDate is
\* absent, null or in another form
UnusableDates(items) ==
    {i \in 1..Len(items) :
        /\ items[i].title # Missing /\ items[i].body = "ok"
        /\ ItemDate(items[i]) # IsoDay}

\* what the logs keep of the body of an answer of the API
SemanticSummary(body) ==
    [kind |-> body.kind, len |-> Len(body.items),
     unusable_dates |-> Cardinality(UnusableDates(body.items))]

\* SemanticSearcher.search after request_api returned
SemanticSearchFinish(body) ==
    /\ pc = "sem_return"
    /\ call.op = "search"
    /\ body \in (IF api = "response" THEN SemanticBodies ELSE {Exc("none")})
    /\ responses' = IF api = "response"
                    THEN Append(responses, SemanticSummary(body))
                    ELSE responses
    /\ seen' = See(seen, body.items)
    /\ papers' = ParseCapped("semantic", body.items, papers,
                             call.max_results)
    /\ ret' = Returned("papers", Truncate(papers', call.max_results))
    /\ pc' = "done"
    /\ UNCHANGED <<call, cursor, tries, start, attempt, script, remote, api,
                   sleeps,
                   results, idx, requests, hubVars, extVars>>

----------------------------------------------------------------------------
(* download_pdf and read_paper of the adapters whose source has PDFs *)

\* where each adapter saves the PDF of the paper, under save_path
PdfPath(adapter) == "downloads/" \o adapter \o ".pdf"
PdfPaths == {PdfPath(a) : a \in {"arxiv", "biorxiv", "iacr", "semantic"}}

\* how `with open(path, 'wb') as f: f.write(content)` ends, preceded by
\* os.makedirs where the adapter calls it
FsOutcomes == {"saved", "mkdir_error", "open_error", "write_error"}

\* open() without the directory raises FileNotFoundError
Written(fs, dir) == IF dir THEN fs ELSE "open_error"

\* the files on disk after the write: open() creates the file
DiskAfter(fs, path, d) ==
    IF fs \in {"saved", "write_error"} THEN d \cup {path} ELSE d

\* what page.extract_text() does for one page: returns text, returns
\* white space only, returns '', or raises
PageKinds == {"text", "blank", "empty", "error"}

\* a PDF file as PdfReader finds it: not a readable PDF, or its pages
Unreadable == [opened |-> TRUE, readable |-> FALSE, pages |-> <<>>]
Pdf(ps)    == [opened |-> TRUE, readable |-> TRUE, pages |-> ps]
Pdfs ==
    {Unreadable}
        \cup {Pdf(ps) : ps \in UNION {[1..n -> PageKinds] : n \in 0..MaxPdfPages}}

\* a file that is no PDF, and a PDF of one page
SamplePdfs == {Unreadable, Pdf(<<"text">>)}

\* Strings are built as sequences of pieces: a page's text, white space, a
\* page marker.
NL == "\n"
PageText(kind, i) ==
    CASE kind = "text"  -> "text" \o ToString(i)
      [] kind = "blank" -> " "
      [] kind = "empty" -> ""
Marker(i) == "--- Page " \o ToString(i) \o " ---"

\* text += piece
Cat(acc, piece) == IF piece = "" THEN acc ELSE Append(acc, piece)

IsSpace(piece) == piece \in {NL, " "}

RECURSIVE LStrip(_)
LStrip(t) ==
    IF t = <<>> THEN <<>>
    ELSE IF IsSpace(Head(t)) THEN LStrip(Tail(t)) ELSE t

RECURSIVE RStrip(_)
RStrip(t) ==
    IF t = <<>> THEN <<>>
    ELSE IF IsSpace(t[Len(t)]) THEN RStrip(SubSeq(t, 1, Len(t) - 1)) ELSE t

\* str.strip()
Strip(t) == RStrip(LStrip(t))

RECURSIVE PlainLoop(_, _, _)
\* for page in reader.pages: text += page.extract_text() + "\n"
\* (left at the first page whose extraction raises)
PlainLoop(ps, i, acc) ==
    IF i > Len(ps) \/ ps[i] = "error" THEN acc
    ELSE PlainLoop(ps, i + 1, Cat(Cat(acc, PageText(ps[i], i)), NL))

\* whether the try block around PdfReader and the loop is left by an
\* exception
PlainRaises(d) == ~d.readable \/ \E i \in 1..Len(d.pages) : d.pages[i] = "error"

\* what the arXiv, bioRxiv and mirror adapters return: text.strip(), or ""
\* from the except clause
PlainBody(d) ==
    IF PlainRaises(d) THEN <<>> ELSE Strip(PlainLoop(d.pages, 1, <<>>))

RECURSIVE MarkedLoop(_, _, _)
\* for page_num, page in enumerate(reader.pages):
\*     try: page_text = page.extract_text()
\*          if page_text: text += marker; text += page_text + "\n"
\*     except Exception: continue
MarkedLoop(ps, i, acc) ==
    IF i > Len(ps) THEN acc
    ELSE IF ps[i] = "error" \/ PageText(ps[i], i) = ""
    THEN MarkedLoop(ps, i + 1, acc)
    ELSE MarkedLoop(ps, i + 1,
                    acc \o <<NL, Marker(i), NL, PageText(ps[i], i), NL>>)

\* text.strip() in the IACR and Semantic Scholar adapters
MarkedBody(d) ==
    IF ~d.readable THEN <<>> ELSE Strip(MarkedLoop(d.pages, 1, <<>>))

\* how the extraction ends: PdfReader raised (or, without per-page try, a
\* page did), the stripped text is empty, or there is text
ExtractOutcomes == {"text", "no_text", "error"}

PlainOutcome(d) ==
    IF PlainRaises(d) THEN "error"
    ELSE IF PlainBody(d) = <<>> THEN "no_text" ELSE "text"

MarkedOutcome(d) ==
    IF ~d.readable THEN "error"
    ELSE IF MarkedBody(d) = <<>> THEN "no_text" ELSE "text"

\* the try/except around the extraction in the arXiv and bioRxiv adapters:
\* text.strip(), or "" after an exception
ExtractedOrEmpty(extract) == IF extract = "text" THEN "text" ELSE ""

\* read_paper of the arXiv and bioRxiv adapters, once the PDF is on disk
ReadExtract(d) ==
    /\ pc = "extract"
    /\ pdf' = d
    /\ text' = PlainBody(d)
    /\ ret' = Returned(ExtractedOrEmpty(PlainOutcome(d)), <<>>)
    /\ pc' = "done"
    /\ UNCHANGED <<call, searchVars, logVars, hubVars, fileVars, recVars>>

\* ArxivSearcher.download_pdf: requests.get, open, write, all outside any
\* try block; the body of any answer is written, whatever its status
ArxivDownloadOutcome(get, fs, dir) ==
    IF get = "exc" THEN Raised("RequestException")
    ELSE IF ~dir THEN Raised("FileNotFoundError")
    ELSE IF Written(fs, dir) # "saved" THEN Raised("OSError")
    ELSE Returned(PdfPath("arxiv"), <<>>)

\* ArxivSearcher.download_pdf, and ArxivSearcher.read_paper up to the
\* extraction
ArxivDownloadPdf(o, get, fs) ==
    LET cached == o = "read_paper" /\ PdfPath("arxiv") \in disk
        out    == ArxivDownloadOutcome(get, fs, dir_exists)
    IN
    /\ AllIdle
    /\ fs # "mkdir_error"
    /\ call' = Call("arxiv", o, 0, FALSE)
    /\ paper_id' = "id"
    /\ IF cached
       THEN /\ requests' = requests /\ responses' = responses
            /\ disk' = disk
            /\ pc' = "extract" /\ ret' = ret
       ELSE /\ requests' = <<Req("arxiv_pdf", 0)>>
            /\ responses' = <<[kind |-> get, len |-> 0]>>
            /\ disk' = IF get = "exc" THEN disk
                       ELSE DiskAfter(Written(fs, dir_exists),
                                      PdfPath("arxiv"), disk)
            /\ IF out.kind = "returned" /\ o = "read_paper"
               THEN pc' = "extract" /\ ret' = ret
               ELSE pc' = "done" /\ ret' = out
    /\ UNCHANGED <<searchVars, seen, hubVars, dir_exists, recVars, readVars>>

\* BioRxivSearcher.download_pdf up to its retry loop, and
\* BioRxivSearcher.read_paper up to the download or the extraction
BioRxivDownloadStart(o, id) ==
    LET cached == o = "read_paper" /\ PdfPath("biorxiv") \in disk IN
    /\ AllIdle
    /\ call' = Call("biorxiv", o, 0, FALSE)
    /\ paper_id' = id
    /\ tries' = 0
    /\ IF cached /\ id # ""
       THEN pc' = "extract" /\ ret' = ret
       ELSE IF id = ""
       THEN pc' = "done" /\ ret' = Raised("ValueError")
       ELSE pc' = "bx_dl" /\ ret' = ret
    /\ UNCHANGED <<papers, cursor, start, attempt, script, remote, api, sleeps,
                   results, idx, logVars, hubVars, disk, dir_exists, recVars, readVars>>

\* (mutant) the attempts counted from one
BioRxivGivesUpEarly(t) == t + 1 = BIORXIV_MAX_RETRIES

\* if tries == self.max_retries: raise
BioRxivGivesUp(t) == t = BIORXIV_MAX_RETRIES

\* one iteration of `while tries < self.max_retries` of download_pdf: a GET
\* that fails with a RequestException (an error status included), or that
\* succeeds and is followed by makedirs, open and write
BioRxivDownloadTry(get, fs) ==
    /\ pc = "bx_dl"
    /\ tries < BIORXIV_MAX_RETRIES
    /\ requests' = Append(requests, Req("biorxiv_pdf", 0))
    /\ responses' = Append(responses, [kind |-> get, len |-> 0])
    /\ IF get = "exc"
       THEN /\ tries' = tries + 1
            /\ disk' = disk /\ dir_exists' = dir_exists
            /\ IF BioRxivGivesUp(tries')
               THEN pc' = "done" /\ ret' = Raised("Exception")
               ELSE pc' = "bx_dl" /\ ret' = ret
       ELSE /\ tries' = tries
            /\ dir_exists' = (dir_exists \/ fs # "mkdir_error")
            /\ disk' = DiskAfter(fs, PdfPath("biorxiv"), disk)
            /\ IF fs # "saved"
               THEN pc' = "done" /\ ret' = Raised("OSError")
               ELSE IF call.op = "read_paper"
               THEN pc' = "extract" /\ ret' = ret
               ELSE pc' = "done"
                    /\ ret' = Returned(PdfPath("biorxiv"), <<>>)
    /\ UNCHANGED <<call, papers, cursor, start, attempt, script, remote, api,
                   sleeps,
                   results, idx, seen, hubVars, paper_id, recVars, readVars>>

\* (mutant) the filename returned whatever the status
IacrDownloadPdfResultAnyStatus(get, fs, dir) ==
    IF get = "exc" \/ (get = "200" /\ Written(fs, dir) # "saved")
    THEN "error_text" ELSE PdfPath("iacr")

\* IACRSearcher.download_pdf: the filename after a 200 and a write that
\* succeeded, otherwise an error text (every exception is caught)
IacrDownloadPdfResult(get, fs, dir) ==
    IF get = "200" /\ Written(fs, dir) = "saved"
    THEN PdfPath("iacr") ELSE "error_text"

\* IACRSearcher.download_pdf
IacrDownloadPdf(get, fs) ==
    /\ AllIdle
    /\ fs # "mkdir_error"
    /\ call' = Call("iacr", "download_pdf", 0, FALSE)
    /\ paper_id' = "id"
    /\ requests' = <<Req("iacr_pdf", 0)>>
    /\ responses' = <<[kind |-> get, len |-> 0]>>
    /\ disk' = IF get = "200"
               THEN DiskAfter(Written(fs, dir_exists), PdfPath("iacr"), disk)
               ELSE disk
    /\ ret' = Returned(IacrDownloadPdfResult(get, fs, dir_exists), <<>>)
    /\ pc' = "done"
    /\ UNCHANGED <<searchVars, seen, hubVars, dir_exists, recVars, readVars>>

\* (mutant) the stripped text returned as it is, empty when nothing was
\* extracted
ReadResultEmptyWithoutText(extract) ==
    CASE extract = "text"    -> "header_and_text"
      [] extract = "no_text" -> ""
      [] OTHER               -> "error_text"

\* what read_paper of the IACR and Semantic Scholar adapters returns once
\* the PDF is saved: the header and the text, or a placeholder when no
\* text was extracted; an exception of PdfReader is caught
ReadResult(extract) ==
    CASE extract = "text"    -> "header_and_text"
      [] extract = "no_text" -> "placeholder"
      [] OTHER               -> "error_text"

\* IACRSearcher.read_paper: get_paper_details, then the PDF request,
\* makedirs, the write and the extraction, all inside one try block
IacrReadPaper(detail, get, fs, d) ==
    LET found == IacrGetPaperDetails(detail) # <<>>
        got   == found /\ get = "200"
        reads == got /\ fs = "saved"
    IN
    /\ AllIdle
    /\ d \in (IF reads THEN Pdfs ELSE {NoPdf})
    /\ call' = Call("iacr", "read_paper", 0, FALSE)
    /\ paper_id' = "id"
    /\ requests' = IF found
                   THEN <<Req("iacr_detail", 0), Req("iacr_pdf", 0)>>
                   ELSE <<Req("iacr_detail", 0)>>
    /\ responses' = IF found
                    THEN <<[kind |-> detail.kind, len |-> 0],
                           [kind |-> get, len |-> 0]>>
                    ELSE <<[kind |-> detail.kind, len |-> 0]>>
    /\ dir_exists' = (dir_exists \/ (got /\ fs # "mkdir_error"))
    /\ disk' = IF got THEN DiskAfter(fs, PdfPath("iacr"), disk) ELSE disk
    /\ pdf' = d
    /\ text' = IF reads THEN MarkedBody(d) ELSE <<>>
    /\ ret' = Returned(IF reads THEN ReadResult(MarkedOutcome(d))
                       ELSE "error_text", <<>>)
    /\ pc' = "done"
    /\ UNCHANGED <<searchVars, seen, hubVars, recVars>>

\* the answers of the server that differ in what request_api does: after
\* the answer that ends the call, the script is filled with 200
DetailScripts ==
    {s \in Scripts :
        \A k \in 1..(ScriptLen - 1) :
            (s[k] # "429" \/ k >= SEM_MAX_RETRIES) => s[k + 1] = "200"}

\* the JSON object answered for one paper, or a body that is not JSON
SemanticDetailBodies ==
    {Exc("unparsable")}
        \cup {PageResp(<<k>>) : k \in {OkItem, NoTitleItem} \cup NullKinds
                                         \cup DateKinds}

\* SemanticSearcher.get_paper_details after request_api returned: None
\* after an error result or an exception, else what _parse_paper returns
SemanticGetPaperDetails(result, body) ==
    IF result # "response" \/ body.kind # "page" THEN <<>>
    ELSE SemanticParsePaper(body.items[1])

\* get_paper_details returns; download_pdf and read_paper go on to the
\* PDF request when the paper was found and has a pdf_url
SemanticDetailsFinish(body, has_pdf_url) ==
    LET found == SemanticGetPaperDetails(api, body) IN
    /\ pc = "sem_return"
    /\ call.op \in {"get_paper_details", "download_pdf", "read_paper"}
    /\ body \in (IF api = "response" THEN SemanticDetailBodies
                                     ELSE {Exc("none")})
    /\ responses' = IF api = "response"
                    THEN Append(responses, SemanticSummary(body))
                    ELSE responses
    /\ seen' = See(seen, body.items)
    /\ papers' = found
    /\ IF call.op = "get_paper_details"
       THEN pc' = "done"
            /\ ret' = Returned(IF found = <<>> THEN "None" ELSE "paper", found)
       ELSE IF found = <<>> \/ ~has_pdf_url
       THEN pc' = "done" /\ ret' = Returned("error_text", <<>>)
       ELSE pc' = "sem_pdf" /\ ret' = ret
    /\ UNCHANGED <<call, cursor, tries, start, attempt, script, remote, api,
                   sleeps,
                   results, idx, requests, hubVars, extVars>>

\* SemanticSearcher.download_pdf and read_paper from the PDF request on:
\* the request, makedirs, the write and (read_paper) the extraction are
\* inside the try block, and every exception becomes an error text
SemanticPdf(get, fs, d) ==
    LET reads == get = "200" /\ fs = "saved" /\ call.op = "read_paper" IN
    /\ pc = "sem_pdf"
    /\ d \in (IF reads THEN Pdfs ELSE {NoPdf})
    /\ pdf' = d
    /\ text' = IF reads THEN MarkedBody(d) ELSE <<>>
    /\ requests' = Append(requests, Req("semantic_pdf", 0))
    /\ responses' = Append(responses, [kind |-> get, len |-> 0])
    /\ dir_exists' = (dir_exists \/ (get = "200" /\ fs # "mkdir_error"))
    /\ disk' = IF get = "200" THEN DiskAfter(fs, PdfPath("semantic"), disk)
               ELSE disk
    /\ ret' = Returned(IF get # "200" \/ fs # "saved" THEN "error_text"
                       ELSE IF call.op = "download_pdf"
                       THEN PdfPath("semantic")
                       ELSE ReadResult(MarkedOutcome(d)), <<>>)
    /\ pc' = "done"
    /\ UNCHANGED <<call, searchVars, seen, hubVars, paper_id, recVars>>

----------------------------------------------------------------------------
(* Sci-Hub mirror adapter: download_pdf and read_paper *)

\* (mutant) the candidates before the current index are dropped
UrlsToTryNoWrap(urls, k) == SubSeq(urls, k + 1, Len(urls))

\* self.available_urls[self.url_index:] + self.available_urls[:self.url_index]
UrlsToTry(urls, k) == SubSeq(urls, k + 1, Len(urls)) \o SubSeq(urls, 1, k)

\* (mutant) the loop offset stored as the index
NextUrlIndexOffset(k, i, urls) == i % Len(urls)

\* (mutant) the index left as it is
NextUrlIndexKept(k, i, urls) == k

\* (mutant) the sum stored without the modulo
NextUrlIndexUnwrapped(k, i, urls) == k + i

\* self.url_index = (self.url_index + i) % len(self.available_urls)
NextUrlIndex(k, i, urls) == (k + i) % Len(urls)

\* (mutant) the index advanced after a failed candidate too
IndexAfterTryAnyOutcome(outcome, k, i, urls) == NextUrlIndex(k, i, urls)

\* self.url_index after one candidate: assigned only on the path that
\* saved the PDF, just before `return pdf_path`
IndexAfterTry(outcome, k, i, urls) ==
    IF outcome = "saved" THEN NextUrlIndex(k, i, urls) ELSE k

\* how the try block of one candidate ends: the item page request fails,
\* the page holds no PDF URL, the PDF request fails, open() fails, write()
\* fails after open() created the file, or the PDF is saved
TryOutcomes == {"page_error", "no_pdf_url", "pdf_error", "open_error",
                "write_error", "saved"}

\* whether the file is on disk after the try block ended as `outcome`
FileAfterTry(outcome, before) ==
    IF outcome \in {"write_error", "saved"} THEN TRUE ELSE before

\* finally: if temporary_download and os.path.exists(pdf_path): os.remove
FileAfterRead(temporary_download, before) ==
    IF temporary_download /\ before THEN FALSE ELSE before

\* a caller enters download_pdf or read_paper
SciHubEnter(p, o) ==
    /\ pc = "idle"
    /\ hub[p].pc = "idle"
    /\ hub' = [hub EXCEPT ![p] =
                 [HubIdle EXCEPT !.op = o,
                                 !.pc = IF o = "read_paper" THEN "rd_begin"
                                                            ELSE "dl_begin",
                                 !.existed_before = pdf_exists,
                                 !.prev_served = last_served,
                                 !.index_before = url_index]]
    /\ UNCHANGED <<pc, call, searchVars, logVars, ret, available_urls,
                   url_index, pdf_exists, last_served,
                   extVars>>

\* a call entered while no other call is in progress
SciHubCall(p, o) == AllIdle /\ SciHubEnter(p, o)

\* a call entered whatever the other callers of the instance are doing:
\* the instance is shared without synchronization
SciHubCallInterleaved(p, o) == SciHubEnter(p, o)

\* read_paper up to the call of download_pdf
SciHubReadBegin(p) ==
    /\ hub[p].pc = "rd_begin"
    /\ hub' = [hub EXCEPT ![p].temporary_download = ~pdf_exists,
                          ![p].pc = IF pdf_exists THEN "rd_extract"
                                                  ELSE "dl_begin"]
    /\ UNCHANGED <<pc, call, searchVars, logVars, ret, available_urls,
                   url_index, pdf_exists, last_served,
                   extVars>>

\* download_pdf up to the loop over the candidates
SciHubDownloadBegin(p) ==
    /\ hub[p].pc = "dl_begin"
    /\ IF available_urls = <<>>
       THEN hub' = [hub EXCEPT ![p].pc = "done",
                               ![p].ret = Raised("RuntimeError")]
       ELSE hub' = [hub EXCEPT ![p].pc = "dl_try",
                               ![p].i = 0,
                               ![p].index_before = url_index,
                               ![p].urls_to_try =
                                   UrlsToTry(available_urls, url_index)]
    /\ UNCHANGED <<pc, call, searchVars, logVars, ret, available_urls,
                   url_index, pdf_exists, last_served,
                   extVars>>

\* one iteration of `for i, base_url in enumerate(urls_to_try)`
SciHubTry(p, outcome) ==
    LET h        == hub[p]
        base_url == h.urls_to_try[h.i + 1]
        tried    == Append(h.tried, base_url)
    IN
    /\ h.pc = "dl_try"
    /\ h.i < Len(h.urls_to_try)
    /\ pdf_exists' = FileAfterTry(outcome, pdf_exists)
    /\ url_index' = IndexAfterTry(outcome, url_index, h.i, available_urls)
    /\ IF outcome = "saved"
       THEN /\ last_served' = base_url
            /\ hub' = [hub EXCEPT
                  ![p].tried = tried,
                  ![p].served = base_url,
                  ![p].pc = IF h.op = "read_paper" THEN "rd_extract"
                                                   ELSE "done",
                  ![p].ret = IF h.op = "read_paper" THEN h.ret
                             ELSE Returned("pdf_path", <<>>)]
       ELSE /\ last_served' = last_served
            \* continue; after the last candidate the loop ends and the
            \* RuntimeError is raised (through read_paper, which calls
            \* download_pdf outside its try block)
            /\ hub' = [hub EXCEPT
                  ![p].tried = tried,
                  ![p].i = h.i + 1,
                  ![p].pc = IF h.i + 1 < Len(h.urls_to_try) THEN "dl_try"
                                                            ELSE "done",
                  ![p].ret = IF h.i + 1 < Len(h.urls_to_try) THEN h.ret
                             ELSE Raised("RuntimeError")]
    /\ UNCHANGED <<pc, call, searchVars, logVars, ret, available_urls,
                   extVars>>

\* read_paper: the try block around the extraction, and its finally clause
SciHubExtract(p, d) ==
    /\ hub[p].pc = "rd_extract"
    /\ pdf_exists' = FileAfterRead(hub[p].temporary_download, pdf_exists)
    /\ hub' = [hub EXCEPT
          ![p].pc = "done",
          ![p].pdf = d,
          ![p].text = PlainBody(d),
          ![p].ret = Returned(ExtractedOrEmpty(PlainOutcome(d)), <<>>)]
    /\ UNCHANGED <<pc, call, searchVars, logVars, ret, available_urls,
                   url_index, last_served,
                   extVars>>

\* the caller takes the outcome
SciHubFinish(p) ==
    /\ hub[p].pc = "done"
    /\ hub' = [hub EXCEPT ![p] = HubIdle]
    /\ UNCHANGED <<pc, call, searchVars, logVars, ret, available_urls,
                   url_index, pdf_exists, last_served,
                   extVars>>

----------------------------------------------------------------------------
\* the max_results arguments tried: small ones, and the default of 10
MaxResultsArgs == (0..MaxResults) \cup {DEFAULT_MAX_RESULTS}
BioRxivArgs == MaxResultsArgs \cup {BIORXIV_PAGE + 50}
GoogleScholarArgs == MaxResultsArgs \cup {GS_PAGE + 1}

Next ==
    \/ AllIdle /\ \E n \in MaxResultsArgs, resp \in ArxivResponses :
          ArxivSearch(n, resp)
    \/ AllIdle /\ \E n \in MaxResultsArgs, r1 \in PubMedSearchResponses,
          r2 \in PubMedFetchResponses : PubMedSearch(n, r1, r2)
    \/ \E n \in BioRxivArgs : BioRxivSearchStart(n)
    \/ pc = "bx_try" /\ \E resp \in BioRxivResponses : BioRxivTry(resp)
    \/ AllIdle /\ \E n \in GoogleScholarArgs,
                     r \in {NoRemote} \cup {Remote(l) : l \in RemoteLists} :
          GoogleScholarSearchStart(n, r)
    \/ pc = "gs_request" /\ \E resp \in GoogleScholarAnswers :
          GoogleScholarRequest(resp)
    \/ AllIdle /\ \E n \in MaxResultsArgs, fd \in BOOLEAN,
                     resp \in IacrResponses : IacrSearch(n, fd, resp)
    \/ pc = "iacr_item" /\ \E detail \in IacrDetailResponses \cup {NoDetail} :
          IacrItem(detail)
    \/ AllIdle /\ \E s \in Scripts : SemanticStart("request_api", 0, s)
    \/ AllIdle /\ \E n \in MaxResultsArgs, s \in Scripts :
          SemanticStart("search", n, s)
    \/ AllIdle /\ \E s \in DetailScripts :
          SemanticStart("get_paper_details", 0, s)
    \/ SemanticRequest
    \/ SemanticRequestApiReturn
    \/ pc = "sem_return" /\ \E body \in SemanticDetailBodies \cup {Exc("none")} :
          SemanticDetailsFinish(body, FALSE)
    \/ pc = "sem_return" /\ \E body \in SemanticBodies \cup {Exc("none")} :
          SemanticSearchFinish(body)
    \/ AllIdle /\ \E ao \in UnsupportedOps, n \in MaxResultsArgs :
          Unsupported(ao[1], ao[2], n)
    \/ Finish

\* the search side: every adapter that searches, and the unsupported
\* capabilities
Spec == Init /\ [][Next]_vars

NextHub ==
    \/ \E p \in Callers, o \in {"download_pdf", "read_paper"} : SciHubCall(p, o)
    \/ \E p \in Callers : SciHubReadBegin(p)
    \/ \E p \in Callers : SciHubDownloadBegin(p)
    \/ \E p \in Callers, outcome \in TryOutcomes : SciHubTry(p, outcome)
    \/ \E p \in Callers :
          hub[p].pc = "rd_extract" /\ \E d \in Pdfs : SciHubExtract(p, d)
    \/ \E p \in Callers : SciHubFinish(p)
    \/ AllIdle /\ \E ao \in UnsupportedOps, n \in MaxResultsArgs :
          Unsupported(ao[1], ao[2], n)
    \/ Finish

\* the mirror adapter, its calls one at a time, and the unsupported
\* capabilities
SpecHub == InitHub /\ [][NextHub]_vars

NextRecord ==
    \/ PaperConstruct
    \/ PaperToDict

NextHubInterleaved ==
    \/ \E p \in Callers, o \in {"download_pdf", "read_paper"} :
          SciHubCallInterleaved(p, o)
    \/ \E p \in Callers : SciHubReadBegin(p)
    \/ \E p \in Callers : SciHubDownloadBegin(p)
    \/ \E p \in Callers, outcome \in TryOutcomes : SciHubTry(p, outcome)
    \/ \E p \in Callers :
          hub[p].pc = "rd_extract" /\ \E d \in SamplePdfs : SciHubExtract(p, d)
    \/ \E p \in Callers : SciHubFinish(p)

\* the mirror adapter, one instance used by two callers at once: their
\* calls interleave between any two requests
SpecHubInterleaved == InitHubInterleaved /\ [][NextHubInterleaved]_vars

\* the canonical record: construction and serialization, for every
\* combination of the argument values tried
SpecRecord == InitRecord /\ [][NextRecord]_vars

PdfAnswers == {"exc", "non200", "200"}

NextFiles ==
    \/ AllIdle /\ \E o \in {"download_pdf", "read_paper"}, get \in PdfAnswers,
          fs \in FsOutcomes : ArxivDownloadPdf(o, get, fs)
    \/ \E o \in {"download_pdf", "read_paper"}, id \in {"", "id"} :
          BioRxivDownloadStart(o, id)
    \/ pc = "bx_dl" /\ \E get \in {"exc", "200"}, fs \in FsOutcomes :
          BioRxivDownloadTry(get, fs)
    \/ pc = "extract" /\ \E d \in Pdfs : ReadExtract(d)
    \/ AllIdle /\ \E get \in PdfAnswers, fs \in FsOutcomes :
          IacrDownloadPdf(get, fs)
    \/ AllIdle /\ \E detail \in IacrDetailResponses, get \in PdfAnswers,
          fs \in FsOutcomes, d \in Pdfs \cup {NoPdf} :
          IacrReadPaper(detail, get, fs, d)
    \/ AllIdle /\ \E o \in {"get_paper_details", "download_pdf", "read_paper"},
          s \in DetailScripts : SemanticStart(o, 0, s)
    \/ SemanticRequest
    \/ pc = "sem_return" /\ \E body \in SemanticDetailBodies \cup {Exc("none")},
          has_pdf_url \in BOOLEAN : SemanticDetailsFinish(body, has_pdf_url)
    \/ pc = "sem_pdf" /\ \E get \in PdfAnswers, fs \in FsOutcomes,
                            d \in Pdfs \cup {NoPdf} : SemanticPdf(get, fs, d)
    \/ \E p \in Callers, o \in {"download_pdf", "read_paper"} : SciHubCall(p, o)
    \/ \E p \in Callers : SciHubReadBegin(p)
    \/ \E p \in Callers : SciHubDownloadBegin(p)
    \/ \E p \in Callers, outcome \in TryOutcomes : SciHubTry(p, outcome)
    \/ \E p \in Callers :
          hub[p].pc = "rd_extract" /\ \E d \in Pdfs : SciHubExtract(p, d)
    \/ \E p \in Callers : SciHubFinish(p)
    \/ Finish

\* download_pdf and read_paper of every adapter whose source has PDFs,
\* the calls one at a time, on one shared disk
SpecFiles == Init /\ [][NextFiles]_vars

----------------------------------------------------------------------------
(* Properties *)

SearchAdapters ==
    {"arxiv", "pubmed", "biorxiv", "google_scholar", "iacr", "semantic"}

\* a search of an adapter that supports search has ended
SearchDone ==
    pc = "done" /\ call.op = "search" /\ call.adapter \in SearchAdapters

\* request_api, called on its own, has ended
ApiDone == pc = "done" /\ call.adapter = "semantic" /\ call.op = "request_api"

\* C1: a search with max_results = N returns at most N records, whatever
\* the remote source sent.
C1_AtMostMaxResults ==
    (SearchDone /\ ret.kind = "returned")
        => Len(ret.papers) <= call.max_results

\* C2: a search never raises, whether a request failed or a body could not
\* be parsed.
C2_SearchNeverRaises == SearchDone => ret.kind = "returned"

\* the answers held well-formed items and exactly one item without title
OneItemWithoutTitle == seen.no_title = 1 /\ seen.other = 0

\* C3 (as claimed): with well-formed items plus one item without title in
\* the answer, every search adapter returns one record per well-formed item
\* (max_results leaving room for them) and skips the other.
C3_MalformedSkippedByAll ==
    (SearchDone /\ ret.kind = "returned" /\ OneItemWithoutTitle
     /\ seen.ok <= call.max_results)
        => Len(ret.papers) = seen.ok

\* C3 (amended): the same for every search adapter except IACR; the IACR
\* adapter keeps the item without title, as a record with an empty title.
C3_MalformedSkipped ==
    (SearchDone /\ ret.kind = "returned" /\ OneItemWithoutTitle)
        => IF call.adapter = "iacr"
           THEN Len(ret.papers) = Min(seen.ok + 1, call.max_results)
           ELSE seen.ok <= call.max_results => Len(ret.papers) = seen.ok

C3_Witness ==
    /\ SearchDone /\ ret.kind = "returned"
    /\ call.adapter = "biorxiv"
    /\ seen = [ok |-> 5, no_title |-> 1, other |-> 0]
    /\ call.max_results = DEFAULT_MAX_RESULTS
    /\ Len(ret.papers) = 5

\* every answer of the call was a page of exactly n items
AllPagesOf(n) ==
    \A k \in 1..Len(responses) :
        responses[k].kind = "page" /\ responses[k].len = n

\* C4: bioRxiv search with max_results = 150 against pages of 100 items
\* issues at least two page requests, cursor 0 then cursor 100, and stops
\* only with 150 items accumulated or after a page of fewer than 100 items.
C4_WindowedPagination ==
    (pc = "done" /\ call.adapter = "biorxiv" /\ call.max_results = 150
     /\ AllPagesOf(BIORXIV_PAGE))
        => /\ Len(requests) >= 2
           /\ requests[1].at = 0
           /\ requests[2].at = BIORXIV_PAGE

\* each sleep twice as long as the one before
Doubling(s) == \A k \in 2..Len(s) : s[k] = 2 * s[k - 1]

\* C5 (as claimed): three answers 429 followed by a 200 yield the
\* successful response, with three sleeps of doubling duration.
C5_ThreeRetriesThenSuccess ==
    (ApiDone /\ script = <<"429", "429", "429", "200">>)
        => /\ ret = Returned("response", <<>>)
           /\ Len(sleeps) = 3
           /\ Doubling(sleeps)

\* C5 (amended): two answers 429 followed by a 200 yield the successful
\* response with two sleeps, of 2 and then 4 seconds; a third 429 in a row
\* ends the call with rate_limited, without a third sleep.
C5_TwoRetriesThenSuccess ==
    (ApiDone /\ script[1] = "429" /\ script[2] = "429")
        => /\ sleeps = <<SEM_RETRY_DELAY, 2 * SEM_RETRY_DELAY>>
           /\ Doubling(sleeps)
           /\ script[3] = "200" => ret = Returned("response", <<>>)
           /\ script[3] = "429" => ret = Returned("rate_limited", <<>>)

C5_Witness ==
    /\ ApiDone
    /\ script[1] = "429" /\ script[2] = "429" /\ script[3] = "200"
    /\ ret.what = "response"
    /\ Len(sleeps) = 2

\* C6: when every attempt of request_api is answered 429, the call ends
\* after max_retries requests, does not raise, and returns rate_limited.
C6_RateLimitedAfterMaxRetries ==
    (ApiDone /\ \A k \in 1..Len(responses) : responses[k].kind = "429")
        => /\ Len(requests) = SEM_MAX_RETRIES
           /\ ret = Returned("rate_limited", <<>>)

C6_Witness ==
    /\ ApiDone
    /\ Len(responses) = 3
    /\ \A k \in 1..3 : responses[k].kind = "429"
    /\ ret.what = "rate_limited"

\* position (from 0) of mirror m in self.available_urls
PositionOf(m) == (CHOOSE k \in 1..Len(available_urls) : available_urls[k] = m) - 1

IsPrefix(s, t) == Len(s) <= Len(t) /\ s = SubSeq(t, 1, Len(s))

\* C7: when the first K mirrors tried fail and the next one succeeds,
\* url_index is afterwards the position of that mirror in the candidate
\* list, whatever the index was before; and the next download tries that
\* mirror first.
C7_MirrorRotation ==
    \A p \in Callers :
        /\ hub[p].served # NoMirror
               => /\ url_index = PositionOf(hub[p].served)
                  /\ hub[p].served = hub[p].tried[Len(hub[p].tried)]
        /\ (hub[p].tried # <<>> /\ hub[p].prev_served # NoMirror)
               => hub[p].tried[1] = hub[p].prev_served

C7_Witness ==
    \E p \in Callers :
        /\ hub[p].pc = "done" /\ hub[p].op = "download_pdf"
        /\ hub[p].served # NoMirror
        /\ Len(hub[p].tried) = 3
        /\ hub[p].index_before = 1
        /\ hub[p].prev_served # NoMirror

\* C8: download_pdf tries each candidate at most once, in list order from
\* the current index, wrapping around; a failed candidate is followed by the
\* next one; the call raises only when every candidate has failed.
C8_EveryCandidateTried ==
    \A p \in Callers :
        LET h == hub[p] IN
        /\ IsPrefix(h.tried, UrlsToTry(available_urls, h.index_before))
        /\ \A j, k \in 1..Len(h.tried) : j # k => h.tried[j] # h.tried[k]
        /\ h.pc = "dl_try" => h.i = Len(h.tried) /\ h.i < Len(available_urls)
        /\ (h.pc = "done" /\ h.ret.kind = "raised")
               => /\ Len(h.tried) = Len(available_urls)
                  /\ h.served = NoMirror

C8_Witness ==
    \E p \in Callers :
        /\ hub[p].pc = "done" /\ hub[p].ret.kind = "raised"
        /\ Len(hub[p].tried) = 3
        /\ hub[p].index_before = 2

\* C9: after read_paper, by success or by failure, the PDF file is on disk
\* exactly if it was there before the call.
C9_ReadLeavesFileAsFound ==
    \A p \in Callers :
        (hub[p].pc = "done" /\ hub[p].op = "read_paper")
            => pdf_exists = hub[p].existed_before

ReadingAdapters == {"arxiv", "biorxiv", "iacr", "semantic"}

\* C11: read_paper of an adapter whose source supports reading returns a
\* text, whether the download or the extraction failed or not: no
\* exception reaches the caller.
C11_ReadPaperNeverRaises ==
    /\ (pc = "done" /\ call.op = "read_paper"
        /\ call.adapter \in ReadingAdapters) => ret.kind = "returned"
    /\ \A p \in Callers :
           (hub[p].pc = "done" /\ hub[p].op = "read_paper")
               => hub[p].ret.kind = "returned"

\* C12: when download_pdf returns a file path, a file is at that path.
C12_ReturnedPathExists ==
    /\ (pc = "done" /\ call.op = "download_pdf" /\ ret.kind = "returned"
        /\ ret.what # "error_text")
           => /\ ret.what = PdfPath(call.adapter)
              /\ ret.what \in disk
    /\ \A p \in Callers :
           (hub[p].pc = "done" /\ hub[p].op = "download_pdf"
            /\ hub[p].ret.kind = "returned") => pdf_exists

C12_Witness ==
    /\ pc = "done" /\ call.adapter = "iacr" /\ call.op = "download_pdf"
    /\ ret = Returned(PdfPath("iacr"), <<>>)
    /\ PdfPath("iacr") \in disk
    /\ PdfPath("arxiv") \notin disk

\* the four list fields of a record
ListFields == {"authors", "categories", "keywords", "references"}

\* C13: however a Paper was constructed, authors, categories, keywords and
\* references are not None afterwards; an argument left out or given as
\* None yields the empty list.
C13_ListsNeverNull ==
    paper # NoPaper =>
        \A f \in ListFields :
            /\ ~paper[f].is_none
            /\ args[f].is_none => paper[f] = Some(<<>>)
            /\ ~args[f].is_none => paper[f] = args[f]

C13_Witness ==
    /\ paper # NoPaper
    /\ args.authors = None /\ args.references = None
    /\ args.keywords = Some(<<"a", "b">>)
    /\ paper.references = Some(<<>>)

\* C14: every record returned by a search or by get_paper_details has a
\* title and an abstract that are strings, never null.
C14_TitleAbstractNeverNull ==
    (pc = "done" /\ ret.kind = "returned"
     /\ call.op \in {"search", "get_paper_details"}) =>
        \A k \in 1..Len(ret.papers) :
            ret.papers[k].title # Null /\ ret.papers[k].abstract # Null

\* C15: for the search-results page of the call, IACR search returns with
\* fetch_details = true as many records as with fetch_details = false.
C15_SameCountWithDetails ==
    (SearchDone /\ call.adapter = "iacr" /\ call.fetch_details
     /\ ret.kind = "returned" /\ responses[1].kind = "page") =>
        Len(ret.papers) = Len(IacrSearchCompact(results, call.max_results))

\* the rendering of a list field: the elements joined with "; "
RenderedList(v, out) ==
    /\ v = Some(<<>>) => out = ""
    /\ v = Some(<<"a">>) => out = "a"
    /\ v = Some(<<"a", "b">>) => out = "a; b"

\* the rendering of a date field: ISO-8601, or "" when absent
RenderedDate(v, out) ==
    /\ v = None => out = ""
    /\ v = Some(Date(2024, 1, 5)) => out = "2024-01-05T00:00:00"

\* to_dict renders everything but `extra` as claimed
RenderedButExtra ==
    /\ \A f \in ListFields : RenderedList(paper[f], wire[f])
    /\ RenderedDate(paper.published_date, wire.published_date)
    /\ RenderedDate(paper.updated_date, wire.updated_date)
    /\ wire.title = paper.title
    /\ wire.citations = paper.citations

\* C16 (as claimed): to_dict renders the lists joined with "; ", the dates
\* in ISO-8601 or as "", extra as its string form, and passes the other
\* fields through.
C16_ToDictRendering ==
    wire # NoWire =>
        /\ RenderedButExtra
        /\ paper.extra = Some(<<>>) => wire.extra = "{}"
        /\ paper.extra = Some(<< <<"k", "v">> >>) => wire.extra = "{'k': 'v'}"

\* C16 (amended): the same, except that an empty extra is rendered as the
\* empty string and only a non-empty extra as its string form.
C16_ToDictRenderingEmptyExtra ==
    wire # NoWire =>
        /\ RenderedButExtra
        /\ paper.extra = Some(<<>>) => wire.extra = ""
        /\ paper.extra = Some(<< <<"k", "v">> >>) => wire.extra = "{'k': 'v'}"

C16_Witness ==
    /\ wire # NoWire
    /\ args.extra = None
    /\ wire.extra = ""
    /\ wire.authors = "a; b"
    /\ wire.published_date = "2024-01-05T00:00:00"
    /\ wire.updated_date = ""

\* how many of the requests went to offset c
RequestsAt(c) == Cardinality({k \in 1..Len(requests) : requests[k].at = c})

\* the last n answers were all failures of the request
LastFailed(n) ==
    /\ Len(responses) >= n
    /\ \A k \in (Len(responses) - n + 1)..Len(responses) :
           responses[k].kind = "exc"

\* C17: bioRxiv search requests one page at most max_retries times; when
\* all attempts for a page fail it returns what it accumulated, truncated
\* to max_results, and does not raise; the number of requests of one call
\* is bounded, so the call ends whatever the server does.
C17_BoundedPageRetries ==
    (call.adapter = "biorxiv" /\ call.op = "search") =>
        /\ \A k \in 1..Len(requests) :
               RequestsAt(requests[k].at) <= BIORXIV_MAX_RETRIES
        /\ Len(requests)
               <= BIORXIV_MAX_RETRIES * ((call.max_results \div BIORXIV_PAGE) + 1)
        /\ LastFailed(BIORXIV_MAX_RETRIES) => pc = "done"
        /\ pc = "done" => ret = Returned("papers",
                                         Truncate(papers, call.max_results))

C17_Witness ==
    /\ pc = "done" /\ call.adapter = "biorxiv" /\ call.op = "search"
    /\ Len(requests) = 3
    /\ LastFailed(3)
    /\ ret.kind = "returned"

\* every answer received so far was a failed GET
AllFailed == \A k \in 1..Len(responses) : responses[k].kind = "exc"

\* C18: bioRxiv download_pdf.  An empty paper_id raises before any request.
\* When every GET fails, the call issues exactly max_retries GETs and then
\* raises.  A GET that succeeds is the last one: the directory is created,
\* and the call returns the path of the file it wrote (or the error of
\* the file system that refused the write leaves the call).
C18_DownloadRetries ==
    (call.adapter = "biorxiv" /\ call.op = "download_pdf") =>
        /\ paper_id = "" =>
               /\ pc = "done" /\ requests = <<>>
               /\ ret = Raised("ValueError")
        /\ \A k \in 1..(Len(responses) - 1) : responses[k].kind = "exc"
        /\ Len(requests) <= BIORXIV_MAX_RETRIES
        /\ (pc = "done" /\ paper_id # "" /\ AllFailed) =>
               /\ Len(requests) = BIORXIV_MAX_RETRIES
               /\ ret = Raised("Exception")
        /\ (AllFailed /\ Len(requests) = BIORXIV_MAX_RETRIES) => pc = "done"
        /\ (Len(responses) > 0 /\ ~AllFailed) =>
               /\ pc = "done"
               /\ ret \in {Returned(PdfPath("biorxiv"), <<>>), Raised("OSError")}
               /\ ret.kind = "returned" =>
                      dir_exists /\ PdfPath("biorxiv") \in disk

C18_Witness ==
    /\ pc = "done" /\ call.adapter = "biorxiv" /\ call.op = "download_pdf"
    /\ Len(requests) = 3
    /\ AllFailed
    /\ ret = Raised("Exception")

\* C19: request_api retries only on 429.  Another HTTP error status ends
\* the call with http_error and a failure of the request itself with
\* general_error: no request and no sleep follows, nothing is raised, and
\* when it was the first answer there was exactly one request.
C19_OnlyRateLimitRetried ==
    (call.adapter = "semantic" /\ call.op = "request_api") =>
        /\ \A k \in 1..(Len(responses) - 1) : responses[k].kind = "429"
        /\ \A k \in 1..Len(responses) :
               responses[k].kind \in {"500", "exc"} =>
                   /\ pc \in {"sem_return", "done"}
                   /\ Len(sleeps) = k - 1
                   /\ api = IF responses[k].kind = "500" THEN "http_error"
                                                        ELSE "general_error"
        /\ (ApiDone /\ responses[1].kind \in {"500", "exc"}) =>
               /\ Len(requests) = 1
               /\ sleeps = <<>>
               /\ ret = Returned(api, <<>>)

C19_Witness ==
    /\ ApiDone
    /\ responses[1].kind = "500"
    /\ Len(requests) = 1
    /\ ret.what = "http_error"

\* C20: in a Google Scholar search, an answer with a status other than 200
\* or a page without result container is the last request of the call;
\* the search then returns the records accumulated so far and does not
\* raise.
C20_PaginationStops ==
    (call.adapter = "google_scholar" /\ call.op = "search") =>
        /\ \A k \in 1..(Len(responses) - 1) :
               responses[k].kind = "page" /\ responses[k].len > 0
        /\ \A k \in 1..Len(responses) :
               (responses[k].kind # "page" \/ responses[k].len = 0) =>
                   /\ pc = "done"
                   /\ ret = Returned("papers", papers)
        /\ pc = "done" => ret.kind = "returned"

C20_Witness ==
    /\ pc = "done" /\ call.adapter = "google_scholar"
    /\ Len(responses) = 2
    /\ responses[2].kind = "non200"
    /\ Len(ret.papers) = 1

\* the records the step has appended to `papers`
Appended == SubSeq(papers', Len(papers) + 1, Len(papers'))

\* C21: in an IACR search with fetch_details, the record of a candidate is
\* the one parsed from its own page when the detail request succeeded, and
\* otherwise the record (if any) built from the fields of the search page; a
\* failed detail request neither drops a candidate the search page yields a
\* record for nor makes the search raise.
C21_DetailOrPhaseOne ==
    [][(pc = "iacr_item" /\ call.fetch_details /\ IacrHasLink(results[idx]))
        => /\ Len(responses') = Len(responses) + 1
           /\ IF responses'[Len(responses')].kind = "page"
              THEN /\ Len(Appended) = 1
                   /\ Appended[1].abstract = "A_detail"
              ELSE Appended = IacrSearchCompact(<<results[idx]>>, 1)
           /\ pc' = "done" => ret'.kind = "returned"]_vars

\* a search with details whose first detail request failed and whose second
\* succeeded: one record from the search page, one from the paper's page
C21_Witness ==
    /\ pc = "done" /\ call.adapter = "iacr" /\ call.fetch_details
    /\ Len(responses) = 3
    /\ responses[2].kind = "exc" /\ responses[3].kind = "page"
    /\ Len(ret.papers) = 2
    /\ ret.papers[1] = Paper("iacr", "T", "A")
    /\ ret.papers[2].abstract = "A_detail"

\* the pieces of a string
Pieces(t) == {t[k] : k \in 1..Len(t)}

\* the PDF was opened and at least one character was extracted from it
CharsExtracted(d) ==
    /\ d.opened /\ d.readable
    /\ \E i \in 1..Len(d.pages) : d.pages[i] \in {"text", "blank"}

\* the text of every page that has text is among the pieces of t
AllPageTextsIn(d, t) ==
    \A i \in 1..Len(d.pages) :
        d.pages[i] = "text" => PageText("text", i) \in Pieces(t)

\* what holds of every finished IACR read_paper: a text that is not empty
\* is returned, the PDF is requested only after the detail request
\* succeeded, and a failed detail request or download yields an error text
IacrReadReturnsText ==
    /\ ret.kind = "returned" /\ ret.what # ""
    /\ requests[1].to = "iacr_detail"
    /\ Len(requests) = 2
           <=> (responses[1].kind = "page" /\ requests[2].to = "iacr_pdf")
    /\ (responses[1].kind # "page" \/ responses[2].kind # "200")
           => ret.what = "error_text" /\ ~pdf.opened

IacrReadDone == pc = "done" /\ call.adapter = "iacr" /\ call.op = "read_paper"

\* C22 (as claimed): IACR read_paper returns a text that is not empty and
\* never raises: the metadata header followed by the extracted text when
\* at least one character was extracted, a placeholder when zero characters
\* were extracted, an error text when the detail request or the PDF
\* download failed; the PDF is requested only after the detail request
\* succeeded.
C22_IacrReadPaperThreeCases ==
    IacrReadDone
        => /\ IacrReadReturnsText
           /\ pdf.opened =>
                  IF CharsExtracted(pdf)
                  THEN /\ ret.what = "header_and_text"
                       /\ text # <<>>
                       /\ AllPageTextsIn(pdf, text)
                  ELSE ret.what = "placeholder" /\ text = <<>>

\* C22 (amended): the same, except that a downloaded file which PdfReader
\* cannot open yields an error text, not the placeholder; the placeholder
\* is returned when the pages were read and yielded no character.
C22_IacrReadPaper ==
    IacrReadDone
        => /\ IacrReadReturnsText
           /\ pdf.opened =>
                  IF ~pdf.readable THEN ret.what = "error_text"
                  ELSE IF CharsExtracted(pdf)
                  THEN /\ ret.what = "header_and_text"
                       /\ text # <<>>
                       /\ AllPageTextsIn(pdf, text)
                  ELSE ret.what = "placeholder" /\ text = <<>>

\* the text of the second page returned after the first page failed
C22_Witness ==
    /\ IacrReadDone
    /\ pdf = Pdf(<<"error", "text">>)
    /\ ret.what = "header_and_text"
    /\ text = <<Marker(2), NL, "text2">>

\* C23: in every adapter that reads PDFs, a page whose extraction fails
\* contributes no text and the text of all other pages is still returned.
C23_PerPageFailureTolerated ==
    /\ (pc = "done" /\ call.op = "read_paper" /\ ret.kind = "returned"
        /\ pdf.opened /\ pdf.readable) => AllPageTextsIn(pdf, text)
    /\ \A p \in Callers :
           (hub[p].pc = "done" /\ hub[p].op = "read_paper"
            /\ hub[p].ret.kind = "returned"
            /\ hub[p].pdf.opened /\ hub[p].pdf.readable)
               => AllPageTextsIn(hub[p].pdf, hub[p].text)

\* C24: the rotation index is not safe for interleaved calls on one
\* instance.  A successful download adds the call's loop offset to the
\* index as stored at that moment, while the mirror that served is at that
\* offset from the index the call started from; the new index is the
\* position of the serving mirror when the stored index is still the one
\* the call started from (as it is when calls run one at a time), and
\* need not be otherwise.
C24_OffsetAddedToStoredIndex ==
    [][\A p \in Callers :
        (hub[p].pc = "dl_try" /\ hub'[p].served # NoMirror)
            => /\ url_index' = (url_index + hub[p].i) % Len(available_urls)
               /\ PositionOf(hub'[p].served)
                      = (hub[p].index_before + hub[p].i) % Len(available_urls)
               /\ url_index = hub[p].index_before
                      => url_index' = PositionOf(hub'[p].served)]_vars

\* two interleaved downloads both started from index 0 and both served by
\* the second mirror: the index is 2, the position of the third mirror
C24_Witness ==
    /\ available_urls = FallbackUrls
    /\ \A p \in Callers :
           /\ hub[p].pc = "done" /\ hub[p].op = "download_pdf"
           /\ hub[p].index_before = 0
           /\ hub[p].served = FallbackUrls[2]
    /\ url_index = 2
    /\ url_index # PositionOf(FallbackUrls[2])

\* C25: after construction the candidate list is never empty, so that
\* download_pdf never fails for lack of candidates (without trying one).
C25_CandidatesNeverEmpty ==
    /\ available_urls # <<>>
    /\ \A p \in Callers :
           (hub[p].pc = "done" /\ hub[p].ret.kind = "raised")
               => hub[p].tried # <<>>

\* C26: a download_pdf in which every candidate fails, and any call that
\* raises, leaves the rotation index and the candidate list as they were
\* before the call; the candidate list is never assigned after
\* construction, the index only by a download that saved the PDF.
C26_FailedCallLeavesIndex ==
    [][/\ available_urls' = available_urls
       /\ url_index' # url_index
              => \E p \in Callers :
                     /\ hub[p].pc = "dl_try"
                     /\ hub'[p].served # NoMirror
                     /\ hub'[p].ret.kind # "raised"
       /\ \A p \in Callers :
              (hub'[p].pc = "done" /\ hub'[p].ret.kind = "raised")
                  => url_index' = hub'[p].index_before]_vars

\* every one of three candidates failed, in a call started from index 1
C26_Witness ==
    \E p \in Callers :
        /\ hub[p].pc = "done" /\ hub[p].op = "download_pdf"
        /\ hub[p].ret = Raised("RuntimeError")
        /\ Len(hub[p].tried) = 3
        /\ hub[p].index_before = 1
        /\ url_index = 1

\* C27: with a candidate list that is not empty, url_index is a position
\* of the list at every moment of any run of download_pdf and read_paper
\* calls, interleaved or one at a time.
C27_IndexInRange ==
    available_urls # <<>>
        => url_index >= 0 /\ url_index < Len(available_urls)

\* the index back on the first position after a call that started from the
\* last one wrapped around, the other caller being inside a call
C27_Witness ==
    /\ Len(available_urls) = 3
    /\ url_index = 0
    /\ \E p, q \in Callers :
           /\ p # q
           /\ hub[p].pc = "done" /\ hub[p].served # NoMirror
           /\ hub[p].index_before = 2 /\ hub[p].i = 1
           /\ hub[q].pc = "dl_try"

\* C28: a Google Scholar search issues a bounded number of requests
\* whatever the answers are: every request after which the search goes on
\* to a further request has added a record, so that the records still
\* missing, at most max_results, bound the requests to come.
C28_EveryPageMakesProgress ==
    [][(pc = "gs_request" /\ pc' = "gs_request")
           => Len(papers') > Len(papers)]_vars

\* the records of the answer that have no published_date
WithoutDate(ps) == {k \in 1..Len(ps) : ps[k].published_date = None}

\* C29: Semantic Scholar search and get_paper_details yield a record
\* without published_date for every item that has paperId and title and
\* whose publicationDate is absent, null or not in the form YYYY-MM-DD
\* (in a search, as far as max_results leaves room for every item).
C29_UnusableDateDegradesToNull ==
    (/\ pc = "done" /\ call.adapter = "semantic"
     /\ call.op \in {"search", "get_paper_details"}
     /\ api = "response"
     /\ responses[Len(responses)].kind = "page"
     /\ call.op = "search" => responses[Len(responses)].len <= call.max_results)
        => Cardinality(WithoutDate(ret.papers))
               = responses[Len(responses)].unusable_dates

\* C30: in a Google Scholar search over one remote result list, each
\* request starts where the page answered to the request before ended, and
\* no result of the list is twice among the records returned.
C30_DisjointWindowsNoDuplicate ==
    (pc = "done" /\ call.adapter = "google_scholar" /\ remote.fixed)
        => /\ \A k \in 1..(Len(requests) - 1) :
                  requests[k + 1].at = requests[k].at + responses[k].len
           /\ \A i, j \in 1..Len(ret.papers) :
                  ret.papers[i].title = ret.papers[j].title => i = j

====
